---- MODULE Spec2Model ----
(***************************************************************************)
(* Model of the ais-web backend: the AIService (services/ai_service.py),   *)
(* the RSSService (services/rss_service.py) and the JSON handlers of       *)
(* app.py that call them.                                                  *)
(*                                                                         *)
(* Representation of Python values:                                        *)
(*   str            a sequence of text chunks: single characters, or a     *)
(*                  whole word or fixed message held as one chunk          *)
(*   number         [whole |-> i, half |-> b] is i (an int) when ~b and    *)
(*                  i + 0.5 (a float) when b                               *)
(*   call outcome   [kind |-> "value", value |-> v] or                     *)
(*                  [kind |-> "raise", exc |-> name]                       *)
(***************************************************************************)
EXTENDS Integers, Sequences, FiniteSets, TLC

VARIABLES config, available, op, request, remote, result, response, remoteCalls

vars == <<config, available, op, request, remote, result, response, remoteCalls>>

(***************************************************************************)
(* Bounds of the model.                                                    *)
(***************************************************************************)
MaxLen == 5
MaxParam == 3
MaxCalls == 2
MaxLines == 3
MaxSegs == 3
MaxItems == 22
MaxFields == 4

(***************************************************************************)
(* Python helpers.                                                         *)
(***************************************************************************)
Value(v) == [kind |-> "value", value |-> v]
Raise(e) == [kind |-> "raise", exc |-> e]

Int_(i) == [whole |-> i, half |-> FALSE]
Half_(i) == [whole |-> i, half |-> TRUE]

\* strings over Alphabet of length at most n
RECURSIVE StringsUpTo(_, _)
StringsUpTo(A, n) ==
  IF n = 0 THEN {<<>>}
  ELSE LET S == StringsUpTo(A, n - 1)
       IN S \cup {Append(s, c) : s \in {t \in S : Len(t) = n - 1}, c \in A}

IsSpace(c) == c \in {" ", "\n", "\t"}
IsDigit(c) == c \in {"0", "1", "2", "3", "4", "5", "6", "7", "8", "9"}

\* str.split() with no argument: maximal runs of non-whitespace characters
RECURSIVE SplitFrom(_, _, _)
SplitFrom(s, i, cur) ==
  IF i > Len(s) THEN (IF cur = <<>> THEN <<>> ELSE <<cur>>)
  ELSE IF IsSpace(s[i])
       THEN (IF cur = <<>> THEN SplitFrom(s, i + 1, <<>>)
             ELSE <<cur>> \o SplitFrom(s, i + 1, <<>>))
       ELSE SplitFrom(s, i + 1, Append(cur, s[i]))

Split(s) == SplitFrom(s, 1, <<>>)

\* ' '.join(words)
RECURSIVE Join(_)
Join(ws) ==
  IF ws = <<>> THEN <<>>
  ELSE IF Len(ws) = 1 THEN ws[1]
  ELSE ws[1] \o <<" ">> \o Join(Tail(ws))

\* str.strip()
RECURSIVE LStrip(_)
LStrip(s) == IF s # <<>> /\ IsSpace(s[1]) THEN LStrip(Tail(s)) ELSE s

RECURSIVE RStrip(_)
RStrip(s) ==
  IF s # <<>> /\ IsSpace(s[Len(s)]) THEN RStrip(SubSeq(s, 1, Len(s) - 1)) ELSE s

Strip(s) == RStrip(LStrip(s))

\* seq[:k] for an int k (negative k counts from the end)
SliceTo(s, k) ==
  IF k >= 0 THEN SubSeq(s, 1, IF k < Len(s) THEN k ELSE Len(s))
  ELSE SubSeq(s, 1, IF Len(s) + k > 0 THEN Len(s) + k ELSE 0)

\* n <= x for an int n and a number x
IntLeq(n, x) == n <= x.whole

\* seq[:x] for a number x: a float is not a slice index
Slice(s, x) == IF x.half THEN Raise("TypeError") ELSE Value(SliceTo(s, x.whole))

(***************************************************************************)
(* AIService, deterministic fallbacks.                                     *)
(***************************************************************************)
NoContentSummary == <<"No content available for summary.">>
Ellipsis == <<".", ".", ".">>

\* mutant: content of exactly max_length words is truncated too
_fallback_summary_strict(content, max_length) ==
  IF content = <<>> THEN Value(NoContentSummary)
  ELSE LET words == Split(content) IN
       IF ~IntLeq(Len(words), max_length) \/ Len(words) = max_length.whole
       THEN LET head == Slice(words, max_length) IN
            IF head.kind = "raise" THEN head
            ELSE Value(Join(head.value) \o Ellipsis)
       ELSE Value(content)

_fallback_summary(content, max_length) ==
  IF content = <<>> THEN Value(NoContentSummary)
  ELSE LET words == Split(content) IN
       IF IntLeq(Len(words), max_length) THEN Value(content)
       ELSE LET head == Slice(words, max_length) IN
            IF head.kind = "raise" THEN head
            ELSE Value(Join(head.value) \o Ellipsis)

\* content.split('. ')
RECURSIVE SplitSentFrom(_, _, _)
SplitSentFrom(s, i, cur) ==
  IF i > Len(s) THEN <<cur>>
  ELSE IF i < Len(s) /\ s[i] = "." /\ s[i + 1] = " "
       THEN <<cur>> \o SplitSentFrom(s, i + 2, <<>>)
       ELSE SplitSentFrom(s, i + 1, Append(cur, s[i]))

SplitSentences(s) == SplitSentFrom(s, 1, <<>>)

NoContentPoints == << <<"No content available">> >>
NoKeyPoints == << <<"No key points available">> >>

\* mutant: the slice takes one fragment too many
_fallback_key_points_one_more(content, num_points) ==
  IF content = <<>> THEN Value(NoContentPoints)
  ELSE LET sentences == SplitSentences(content) IN
       IF sentences # <<>>
       THEN Slice(sentences, [whole |-> num_points.whole + 1, half |-> num_points.half])
       ELSE Value(NoKeyPoints)

_fallback_key_points(content, num_points) ==
  IF content = <<>> THEN Value(NoContentPoints)
  ELSE LET sentences == SplitSentences(content) IN
       IF sentences # <<>> THEN Slice(sentences, num_points)
       ELSE Value(NoKeyPoints)

FallbackExplanation == <<"Sentiment analysis not available without AI service">>

_fallback_sentiment ==
  Value([sentiment |-> <<"neutral">>, confidence |-> 50,
         explanation |-> FallbackExplanation])

(***************************************************************************)
(* AIService, construction and remote path.                                *)
(*                                                                         *)
(* config is the environment read by __init__: whether the key is set and  *)
(* whether the client, built only when it is, was built.  remote is the    *)
(* outcome of client.chat for the current call: "none" (no call made),     *)
(* "raise" (the client raised), "empty" (response.message.content is an    *)
(* empty list) or "text" (the first text segment of the response).  op is  *)
(* the handler whose response is being returned, "idle" between requests.  *)
(***************************************************************************)
AIService_init(cfg) == cfg.api_key /\ cfg.client_ok

\* mutant: the reported mode is lost once the client has been used
is_available_until_used(self_available) == self_available /\ remoteCalls = 0

is_available(self_available) == self_available

NoCall == [kind |-> "none"]
ChatRaises == [kind |-> "raise"]
ChatEmpty == [kind |-> "empty"]
ChatText(t) == [kind |-> "text", text |-> t]

generate_summary(self_available, article_content, max_length, rem) ==
  IF ~self_available THEN _fallback_summary(article_content, max_length)
  ELSE IF rem.kind = "text" THEN Value(Strip(rem.text))
  ELSE _fallback_summary(article_content, max_length)

\* re.sub(r'^\d+\.\s*', '', line)
RECURSIVE SkipDigits(_)
SkipDigits(s) == IF s # <<>> /\ IsDigit(s[1]) THEN SkipDigits(Tail(s)) ELSE s

StripNumbering(line) ==
  LET r == SkipDigits(line) IN
  IF line # <<>> /\ IsDigit(line[1]) /\ r # <<>> /\ r[1] = "."
  THEN LStrip(Tail(r)) ELSE line

\* re.sub of a leading hyphen or bullet and following whitespace
IsBullet(c) == c \in {"-", "bullet"}

StripBullet(point) ==
  IF point # <<>> /\ IsBullet(point[1]) THEN LStrip(Tail(point)) ELSE point

\* mutant: the lines without a list marker are kept as points too
RECURSIVE ParseKeyPointsUnfiltered(_)
ParseKeyPointsUnfiltered(lines) ==
  IF lines = <<>> THEN <<>>
  ELSE LET line == Strip(lines[1])
           rest == ParseKeyPointsUnfiltered(Tail(lines))
           point == StripBullet(StripNumbering(line))
       IN IF Strip(point) # <<>> THEN <<Strip(point)>> \o rest ELSE rest

RECURSIVE ParseKeyPoints(_)
ParseKeyPoints(lines) ==
  IF lines = <<>> THEN <<>>
  ELSE LET line == Strip(lines[1])
           rest == ParseKeyPoints(Tail(lines))
       IN IF line # <<>> /\ (IsDigit(line[1]) \/ IsBullet(line[1]))
          THEN LET point == StripBullet(StripNumbering(line))
               IN IF Strip(point) # <<>> THEN <<Strip(point)>> \o rest ELSE rest
          ELSE rest

generate_key_points(self_available, article_content, num_points, rem) ==
  IF ~self_available THEN _fallback_key_points(article_content, num_points)
  ELSE IF rem.kind = "text"
       THEN LET kp == Slice(ParseKeyPoints(rem.text), num_points)
            IN IF kp.kind = "raise"
               THEN _fallback_key_points(article_content, num_points)
               ELSE kp
       ELSE _fallback_key_points(article_content, num_points)

\* str.lower() on the chunks of the model's alphabet
LowerChunk(c) ==
  CASE c = "Positive" -> "positive"
    [] c = "NEGATIVE" -> "negative"
    [] c = "Neutral" -> "neutral"
    [] c = "Mixed" -> "mixed"
    [] OTHER -> c

Lower(s) == [i \in 1..Len(s) |-> LowerChunk(s[i])]

\* re.search(r'\d+', s): the first maximal run of digits, <<>> if none
RECURSIVE TakeDigits(_)
TakeDigits(s) ==
  IF s # <<>> /\ IsDigit(s[1]) THEN <<s[1]>> \o TakeDigits(Tail(s)) ELSE <<>>

RECURSIVE SearchDigits(_)
SearchDigits(s) ==
  IF s = <<>> THEN <<>>
  ELSE IF IsDigit(s[1]) THEN TakeDigits(s)
  ELSE SearchDigits(Tail(s))

DigitValue(c) ==
  CASE c = "0" -> 0 [] c = "1" -> 1 [] c = "2" -> 2 [] c = "3" -> 3
    [] c = "4" -> 4 [] c = "5" -> 5 [] c = "6" -> 6 [] c = "7" -> 7
    [] c = "8" -> 8 [] c = "9" -> 9

\* int(digits)
RECURSIVE ToInt(_)
ToInt(ds) ==
  IF ds = <<>> THEN 0
  ELSE 10 * ToInt(SubSeq(ds, 1, Len(ds) - 1)) + DigitValue(ds[Len(ds)])

DefaultConfidence == 50

ParseConfidence(rest) ==
  LET m == SearchDigits(Strip(rest))
  IN IF m # <<>> THEN ToInt(m) ELSE DefaultConfidence

\* sentiment_data[key] = v
DictSet(d, key, v) ==
  [k \in (DOMAIN d) \cup {key} |-> IF k = key THEN v ELSE d[k]]

EmptyDict == [k \in {} |-> 0]

\* a response line is [label |-> l, rest |-> r]: the text l followed by r,
\* where l is one of the three labels the parser looks for, or "" for a
\* line that starts with none of them
RECURSIVE ParseSentiment(_, _)
ParseSentiment(lines, sentiment_data) ==
  IF lines = <<>> THEN sentiment_data
  ELSE LET line == lines[1] IN
       ParseSentiment(Tail(lines),
         IF line.label = "Sentiment:"
         THEN DictSet(sentiment_data, "sentiment", Lower(Strip(line.rest)))
         ELSE IF line.label = "Confidence:"
         THEN DictSet(sentiment_data, "confidence", ParseConfidence(line.rest))
         ELSE IF line.label = "Explanation:"
         THEN DictSet(sentiment_data, "explanation", Strip(line.rest))
         ELSE sentiment_data)

\* mutant: a failed remote call returns what was parsed so far, nothing
analyze_sentiment_no_fallback(self_available, rem) ==
  IF ~self_available THEN _fallback_sentiment
  ELSE IF rem.kind = "text" THEN Value(ParseSentiment(rem.text, EmptyDict))
  ELSE Value(EmptyDict)

analyze_sentiment(self_available, rem) ==
  IF ~self_available THEN _fallback_sentiment
  ELSE IF rem.kind = "text" THEN Value(ParseSentiment(rem.text, EmptyDict))
  ELSE _fallback_sentiment

(***************************************************************************)
(* RSSService, values of a parsed feed.                                    *)
(*                                                                         *)
(* xmltodict gives every element as None (empty element), a str (text      *)
(* only), a dict (child elements) or a list (repeated element):            *)
(*   [t |-> "absent"]  the key is not in the parent dict                   *)
(*   [t |-> "none"]    None                                                *)
(*   [t |-> "str", s |-> s]                                                *)
(*   [t |-> "dict", d |-> d]   d a function from keys to values            *)
(*   [t |-> "list", q |-> q]   q a sequence of values                      *)
(* The text fields of an item are strs, or None written as PyNone (as      *)
(* NoMarkup in a markup field).  A str of markup is a sequence of segments *)
(* [kind |-> k, n |-> length in characters], k one of "text" (characters   *)
(* that are neither whitespace nor markup), "space" (a run of whitespace), *)
(* "tag" (one tag), "script", "style" (a whole script or style element).   *)
(***************************************************************************)
Absent == [t |-> "absent"]
NoneValue == [t |-> "none"]
StrValue(s) == [t |-> "str", s |-> s]
DictValue(d) == [t |-> "dict", d |-> d]
ListValue(q) == [t |-> "list", q |-> q]

PyNone == <<"(None)">>
NoMarkup == << [kind |-> "None", n |-> 0] >>
Truthy(s) == s # <<>> /\ s # PyNone

\* d.get(key, default)
Get(d, key, default) == IF key \in DOMAIN d THEN d[key] ELSE default

\* len(x) of the value under channel['item']
PyLen(x) ==
  CASE x.t = "none" -> Raise("TypeError")
    [] x.t = "str" -> Value(Len(x.s))
    [] x.t = "dict" -> Value(Cardinality(DOMAIN x.d))
    [] x.t = "list" -> Value(Len(x.q))

(***************************************************************************)
(* _parse_rss_date.  A date string is <<date-time text>> followed by its   *)
(* zone text, if any; a format is the layout of the date-time text and     *)
(* the directive for the zone.                                             *)
(***************************************************************************)
Formats ==
  << [layout |-> "rfc822", space |-> TRUE, zone |-> "%Z"],
     [layout |-> "rfc822", space |-> TRUE, zone |-> "%z"],
     [layout |-> "rfc822", space |-> TRUE, zone |-> "GMT"],
     [layout |-> "sql", space |-> FALSE, zone |-> ""],
     [layout |-> "isoT", space |-> FALSE, zone |-> "%z"],
     [layout |-> "isoT", space |-> FALSE, zone |-> "Z"] >>

LayoutOf(dt) ==
  CASE dt \in {"Mon, 01 Jan 2024 10:00:00", "Tue, 02 Jan 2024 23:59:59"} -> "rfc822"
    [] dt \in {"2024-01-01 10:00:00"} -> "sql"
    [] dt \in {"2024-01-01T10:00:00"} -> "isoT"
    [] OTHER -> "none"

\* datetime.isoformat() of the date and time of day
IsoOf(dt) ==
  CASE dt = "Mon, 01 Jan 2024 10:00:00" -> "2024-01-01T10:00:00"
    [] dt = "Tue, 02 Jan 2024 23:59:59" -> "2024-01-02T23:59:59"
    [] dt = "2024-01-01 10:00:00" -> "2024-01-01T10:00:00"
    [] dt = "2024-01-01T10:00:00" -> "2024-01-01T10:00:00"

\* the zone texts a directive accepts (%Z on a server running in UTC)
ZoneAccepts(zone, z) ==
  CASE zone = "%Z" -> z \in {"GMT", "UTC"}
    [] zone = "%z" -> z \in {"+0000", "+0100", "+01:00", "Z"}
    [] OTHER -> z = zone

\* the UTC offset isoformat() prints for an aware datetime
OffsetIso(z) ==
  CASE z \in {"+0100", "+01:00"} -> "+01:00"
    [] z \in {"+0000", "Z"} -> "+00:00"

\* datetime.strptime(date_string, fmt) succeeds
Parses(date_string, fmt) ==
  /\ date_string # <<>>
  /\ LayoutOf(date_string[1]) = fmt.layout
  /\ LET rest == Tail(date_string) IN
     IF fmt.zone = "" THEN rest = <<>>
     ELSE IF fmt.space
          THEN Len(rest) = 2 /\ rest[1] = " " /\ ZoneAccepts(fmt.zone, rest[2])
          ELSE Len(rest) = 1 /\ ZoneAccepts(fmt.zone, rest[1])

\* datetime.strptime(date_string, fmt).isoformat()
IsoFormat(date_string, fmt) ==
  IF fmt.zone = "%z"
  THEN <<IsoOf(date_string[1]), OffsetIso(date_string[Len(date_string)])>>
  ELSE <<IsoOf(date_string[1])>>

RECURSIVE TryFormats(_, _)
TryFormats(date_string, i) ==
  IF i > Len(Formats) THEN date_string
  ELSE IF Parses(date_string, Formats[i]) THEN IsoFormat(date_string, Formats[i])
  ELSE TryFormats(date_string, i + 1)

\* mutant: the last format that parses wins
RECURSIVE TryFormatsBackwards(_, _)
TryFormatsBackwards(date_string, i) ==
  IF i < 1 THEN date_string
  ELSE IF Parses(date_string, Formats[i]) THEN IsoFormat(date_string, Formats[i])
  ELSE TryFormatsBackwards(date_string, i - 1)

_parse_rss_date_last_match(date_string) == TryFormatsBackwards(date_string, Len(Formats))

_parse_rss_date(date_string) == TryFormats(date_string, 1)

(***************************************************************************)
(* _clean_html.                                                            *)
(***************************************************************************)
TextLimit == 1000
RawLimit == 500

RECURSIVE TextLen(_)
TextLen(segs) == IF segs = <<>> THEN 0 ELSE segs[1].n + TextLen(Tail(segs))

\* s[:limit]: the segment that straddles the limit is cut
RECURSIVE Truncate(_, _)
Truncate(segs, limit) ==
  IF segs = <<>> \/ limit <= 0 THEN <<>>
  ELSE IF segs[1].n <= limit
       THEN <<segs[1]>> \o Truncate(Tail(segs), limit - segs[1].n)
       ELSE << [kind |-> segs[1].kind, n |-> limit] >>

\* script.decompose() for the script and style elements
Decompose(segs) == SelectSeq(segs, LAMBDA g : g.kind \notin {"script", "style"})

\* soup.get_text(): the text between the tags
GetText(segs) == SelectSeq(segs, LAMBDA g : g.kind # "tag")

\* strip every line and every phrase between double spaces, join what is
\* not empty with single spaces: whitespace at the ends goes, every other
\* run of whitespace becomes one space
RECURSIVE JoinChunks(_, _)
JoinChunks(segs, pending) ==
  IF segs = <<>> THEN <<>>
  ELSE IF segs[1].kind = "space" THEN JoinChunks(Tail(segs), TRUE)
  ELSE (IF pending THEN << [kind |-> "space", n |-> 1] >> ELSE <<>>)
         \o <<segs[1]>> \o JoinChunks(Tail(segs), FALSE)

RECURSIVE DropLeadingSpace(_)
DropLeadingSpace(segs) ==
  IF segs # <<>> /\ segs[1].kind = "space" THEN DropLeadingSpace(Tail(segs)) ELSE segs

CleanWhitespace(segs) == JoinChunks(DropLeadingSpace(segs), FALSE)

\* mutant: the script and style elements are not removed before get_text
_clean_html_keeps_scripts(html_content, soup_ok) ==
  IF html_content = <<>> \/ html_content = NoMarkup THEN <<>>
  ELSE IF soup_ok
       THEN Truncate(CleanWhitespace(GetText(html_content)), TextLimit)
       ELSE Truncate(html_content, RawLimit)

\* soup_ok: BeautifulSoup builds the tree; otherwise it raises and the
\* except branch returns the raw prefix
_clean_html(html_content, soup_ok) ==
  IF html_content = <<>> \/ html_content = NoMarkup THEN <<>>
  ELSE IF soup_ok
       THEN Truncate(CleanWhitespace(GetText(Decompose(html_content))), TextLimit)
       ELSE Truncate(html_content, RawLimit)

(***************************************************************************)
(* _parse_article_xml and fetch_rss_feed.                                  *)
(***************************************************************************)
\* bool(x) of a parsed value
TruthyValue(x) ==
  CASE x.t = "none" -> FALSE
    [] x.t = "str" -> x.s # <<>>
    [] x.t = "dict" -> DOMAIN x.d # {}
    [] x.t = "list" -> x.q # <<>>

Categories(item) ==
  LET categories == Get(item, "category", ListValue(<<>>))
      as_list == IF categories.t = "list" THEN categories.q ELSE <<categories>>
  IN SelectSeq(as_list, TruthyValue)

Summary(item, soup_ok) ==
  IF "description" \in DOMAIN item THEN _clean_html(item["description"], soup_ok)
  ELSE IF "summary" \in DOMAIN item THEN _clean_html(item["summary"], soup_ok)
  ELSE <<>>

Content(item, soup_ok) ==
  IF "content:encoded" \in DOMAIN item THEN _clean_html(item["content:encoded"], soup_ok)
  ELSE IF "content" \in DOMAIN item THEN _clean_html(item["content"], soup_ok)
  ELSE <<>>

ReturnedNone == [kind |-> "None"]

\* item is a parsed value; only a dict has .get
_parse_article_xml(item, soup_ok) ==
  IF item.t # "dict" THEN ReturnedNone
  ELSE LET d == item.d
           article ==
             [title |-> Get(d, "title", <<"Untitled">>),
              link |-> Get(d, "link", <<>>),
              published |-> Get(d, "pubDate", <<>>),
              updated |-> Get(d, "updated", Get(d, "pubDate", <<>>)),
              author |-> Get(d, "author", Get(d, "dc:creator", <<"Unknown">>)),
              summary |-> Summary(d, soup_ok),
              content |-> Content(d, soup_ok),
              tags |-> Categories(d),
              guid |-> Get(d, "guid", Get(d, "link", <<>>)),
              source |-> <<"RSS Feed">>]
           pub_date == Get(d, "pubDate", <<>>)
       IN Value(IF Truthy(pub_date)
                THEN DictSet(article, "published_date", _parse_rss_date(pub_date))
                ELSE article)

ItemCap == 20

\* mutant: each article is put at the front of the list
RECURSIVE ArticlesPrepended(_, _)
ArticlesPrepended(items, soup_ok) ==
  IF items = <<>> THEN <<>>
  ELSE LET article == _parse_article_xml(items[1], soup_ok)
       IN ArticlesPrepended(Tail(items), soup_ok)
            \o (IF article.kind = "value" THEN <<article.value>> ELSE <<>>)

\* for item in items[:20]: append the article unless the parse returned None
RECURSIVE Articles(_, _)
Articles(items, soup_ok) ==
  IF items = <<>> THEN <<>>
  ELSE LET article == _parse_article_xml(items[1], soup_ok)
       IN (IF article.kind = "value" THEN <<article.value>> ELSE <<>>)
            \o Articles(Tail(items), soup_ok)

\* 'key' in x for a parsed value x that holds no text with the key in it
Has(x, key) ==
  CASE x.t = "none" -> Raise("TypeError")
    [] x.t = "str" -> Value(FALSE)
    [] x.t = "dict" -> Value(key \in DOMAIN x.d)
    [] x.t = "list" -> Value(FALSE)

FeedUrl == <<"http://feed.example/rss">>
Now == <<"now">>

\* net is what session.get and xmltodict.parse give: "request_exception",
\* "not_xml" (the parse raises) or "parsed" with the document as a dict
fetch_rss_feed(feed_url, net, soup_ok) ==
  IF net.kind # "parsed" THEN ReturnedNone
  ELSE LET feed_data == net.feed_data IN
  IF "rss" \notin DOMAIN feed_data THEN ReturnedNone
  ELSE LET rss == feed_data["rss"]
           has == Has(rss, "channel") IN
  IF has.kind = "raise" THEN ReturnedNone
  ELSE IF ~has.value THEN ReturnedNone
  ELSE LET channel == rss.d["channel"] IN
  IF channel.t # "dict" THEN ReturnedNone
  ELSE LET c == channel.d
           total_entries == PyLen(Get(c, "item", ListValue(<<>>)))
           got == Get(c, "item", ListValue(<<>>))
           items == IF got.t = "list" THEN got.q ELSE <<got>> IN
  IF total_entries.kind = "raise" THEN ReturnedNone
  ELSE Value(
    [feed_info |->
       [title |-> Get(c, "title", <<"Unknown Feed">>),
        description |-> Get(c, "description", <<>>),
        link |-> Get(c, "link", feed_url),
        updated |-> Get(c, "lastBuildDate", Get(c, "pubDate", <<>>)),
        language |-> Get(c, "language", <<"en">>),
        total_entries |-> total_entries.value],
     articles |-> Articles(SliceTo(items, ItemCap), soup_ok),
     fetch_time |-> Now,
     success |-> TRUE])

(***************************************************************************)
(* Inputs of the AI handlers.                                              *)
(***************************************************************************)
Alphabet == {"a", " ", "."}
ExampleContent == <<"one", " ", "two", " ", "three", " ", "four", " ", "five">>
Contents == StringsUpTo(Alphabet, MaxLen) \cup {ExampleContent}
ContentSamples == {<<"a", ".", " ", "a">>}

DefaultMaxLength == 150
DefaultNumPoints == 5

\* the numbers a request can carry: ints and a float
Params == {Int_(i) : i \in -1..MaxParam} \cup {Half_(1)}

\* request.get_json(): a body without the required fields, or the fields
\* with the optional numeric parameter present or defaulted
NoData == [valid |-> FALSE]
Data(content, param) == [valid |-> TRUE, content |-> content, param |-> param]

SummaryTexts == {<<>>, <<"a">>, <<" ", "a", " ", "a", "\n">>}

KPLineSamples ==
  { <<"1", ".", " ", "a">>, <<"-", " ", "a">>, <<"bullet", "a">>, <<"a">>,
    <<"1", ".">>, <<" ", "1", "2", ".", "a", " ">>, <<>>, <<"-">>,
    <<"-", " ", "1", ".", " ", "a">>, <<"1", ")", "a">> }

SentimentLineSamples ==
  { [label |-> "Sentiment:", rest |-> <<" ", "Positive">>],
    [label |-> "Sentiment:", rest |-> <<" ", "NEGATIVE", " ">>],
    [label |-> "Sentiment:", rest |-> <<"Mixed">>],
    [label |-> "Sentiment:", rest |-> <<>>],
    [label |-> "Confidence:", rest |-> <<" ", "9", "5", "%">>],
    [label |-> "Confidence:", rest |-> <<" ", "1", "5", "0">>],
    [label |-> "Confidence:", rest |-> <<" ", "h", "i", "g", "h">>],
    [label |-> "Confidence:", rest |-> <<" ", "0", ".", "9">>],
    [label |-> "Explanation:", rest |-> <<" ", "a", " ", "a">>],
    [label |-> "Explanation:", rest |-> <<>>],
    [label |-> "", rest |-> <<"a", " ", "a">>] }

RECURSIVE SeqsUpTo(_, _)
SeqsUpTo(S, n) ==
  IF n = 0 THEN {<<>>}
  ELSE LET T == SeqsUpTo(S, n - 1)
       IN T \cup {Append(t, x) : t \in {u \in T : Len(u) = n - 1}, x \in S}

SummaryRemotes == {ChatRaises, ChatEmpty} \cup {ChatText(t) : t \in SummaryTexts}
KeyPointsRemotes ==
  {ChatRaises, ChatEmpty} \cup {ChatText(t) : t \in SeqsUpTo(KPLineSamples, MaxLines)}
SentimentRemotes ==
  {ChatRaises, ChatEmpty}
    \cup {ChatText(t) : t \in SeqsUpTo(SentimentLineSamples, MaxLines)}

(***************************************************************************)
(* Inputs of the feed handler.                                             *)
(***************************************************************************)
SegKinds == {"text", "space", "tag", "script", "style"}
SegLens == {1, 1000}
Segments == [kind : SegKinds, n : SegLens]
Markups == SeqsUpTo(Segments, MaxSegs) \cup {NoMarkup}
MarkupKeys == {"description", "summary", "content:encoded", "content"}

DateTexts ==
  {"Mon, 01 Jan 2024 10:00:00", "Tue, 02 Jan 2024 23:59:59", "2024-01-01 10:00:00",
   "2024-01-01T10:00:00", "yesterday"}
ZoneTails ==
  {<<>>, <<" ", "GMT">>, <<" ", "UTC">>, <<" ", "EST">>, <<" ", "+0100">>,
   <<" ", "Z">>, <<"Z">>, <<"+01:00">>, <<"+0000">>}
DateStrings == {<<dt>> \o tail : dt \in DateTexts, tail \in ZoneTails}

FieldKeys == <<"title", "link", "guid", "author", "updated", "dc:creator">>

\* every markup under the first key of each chain, the one-segment markups
\* under the fallback keys
MarkupItems ==
  {DictValue(k :> h) : k \in {"description", "content:encoded"}, h \in Markups}
    \cup {DictValue(k :> h) : k \in {"summary", "content"}, h \in SeqsUpTo(Segments, 1)}
    \cup {DictValue((k :> << [kind |-> "text", n |-> 1] >>)
                      @@ (j :> << [kind |-> "script", n |-> 1000] >>)) :
            k \in MarkupKeys, j \in MarkupKeys}

DateItems ==
  {DictValue(("title" :> <<"A">>) @@ ("pubDate" :> d)) :
     d \in DateStrings \cup {<<>>, PyNone}}

FieldItems ==
  {DictValue([k \in {FieldKeys[i] : i \in 1..j} |-> <<"v">>]) : j \in 1..MaxFields}

CategoryItems ==
  {DictValue(("title" :> <<"A">>) @@ ("category" :> c)) :
     c \in {NoneValue, StrValue(<<"news">>), StrValue(<<>>),
            ListValue(<<StrValue(<<"a">>), NoneValue, StrValue(<<"b">>)>>)}}

BadItems == {NoneValue, StrValue(<<"x">>)}

SingleItems == MarkupItems \cup DateItems \cup FieldItems \cup CategoryItems \cup BadItems

SimpleItem(i) == DictValue(("title" :> <<ToString(i)>>) @@ ("link" :> <<"l">>))

\* repeated item elements: n items, the one at position bad (if any) broken
ItemList(n, bad, broken) ==
  ListValue([i \in 1..n |-> IF i = bad THEN broken ELSE SimpleItem(i)])

ItemLists ==
  {ItemList(n, bad, broken) : n \in 2..MaxItems, bad \in 0..MaxItems, broken \in BadItems}
    \cup {ListValue(<<x, y>>) : x \in BadItems, y \in BadItems \cup DateItems}

FullMeta ==
  ("title" :> <<"T">>) @@ ("description" :> <<"D">>) @@ ("link" :> <<"L">>)
    @@ ("lastBuildDate" :> <<"B">>) @@ ("pubDate" :> <<"P">>) @@ ("language" :> <<"nl">>)
NoMeta == [k \in {} |-> <<>>]

Channel(meta, item) ==
  DictValue(IF item.t = "absent" THEN meta ELSE meta @@ ("item" :> item))

Parsed(feed_data) == [kind |-> "parsed", feed_data |-> feed_data]
Rss(channel) == Parsed("rss" :> DictValue("channel" :> channel))

Nets ==
  { [kind |-> "request_exception"], [kind |-> "not_xml"],
    Parsed("feed" :> DictValue("entry" :> NoneValue)),
    Parsed("rss" :> NoneValue),
    Parsed("rss" :> StrValue(<<"x">>)),
    Parsed("rss" :> DictValue("@version" :> StrValue(<<"2.0">>))),
    Rss(NoneValue), Rss(StrValue(<<"x">>)),
    Rss(ListValue(<<Channel(NoMeta, Absent), Channel(NoMeta, Absent)>>)) }
    \cup {Rss(Channel(meta, Absent)) : meta \in {FullMeta, NoMeta}}
    \cup {Rss(Channel(NoMeta, item)) : item \in BadItems \cup FieldItems}
    \cup {Rss(Channel(FullMeta, item)) : item \in SingleItems \cup ItemLists}

(***************************************************************************)
(* JSON responses of app.py.                                               *)
(***************************************************************************)
BadRequest == [status |-> 400, success |-> FALSE]
ServerError(e) == [status |-> 500, success |-> FALSE, error |-> e]
Ok(body, ai_available) ==
  [status |-> 200, success |-> TRUE, body |-> body, ai_available |-> ai_available]

NoResult == [kind |-> "none"]

\* the try/except of an AI handler around the service call
AIResponse(r, self_available) ==
  IF r.kind = "raise" THEN ServerError(r.exc)
  ELSE Ok(r.value, is_available(self_available))

(***************************************************************************)
(* State machine.                                                          *)
(***************************************************************************)
Init ==
  /\ config \in {c \in [api_key : BOOLEAN, client_ok : BOOLEAN] :
                    c.client_ok => c.api_key}
  /\ available = AIService_init(config)
  /\ op = "idle"
  /\ request = NoData
  /\ remote = NoCall
  /\ result = NoResult
  /\ response = NoResult
  /\ remoteCalls = 0

\* a handler answering 400 before it reaches the service
Rejected(name) ==
  /\ op' = name
  /\ request' = NoData
  /\ remote' = NoCall
  /\ result' = NoResult
  /\ response' = BadRequest
  /\ UNCHANGED <<config, available, remoteCalls>>

\* the service call of a handler: rem is what client.chat does if called
Served(name, data, rem, r) ==
  /\ IF available THEN rem # NoCall /\ remoteCalls < MaxCalls ELSE rem = NoCall
  /\ rem.kind = "text" => data.content \in ContentSamples
  /\ op' = name
  /\ request' = data
  /\ remote' = rem
  /\ result' = r
  /\ response' = AIResponse(r, available)
  /\ remoteCalls' = IF available THEN remoteCalls + 1 ELSE remoteCalls
  /\ UNCHANGED <<config, available>>

GenerateSummary ==
  /\ op = "idle"
  /\ \/ Rejected("generate_summary")
     \/ \E content \in Contents, max_length \in Params \cup {Int_(DefaultMaxLength)},
           rem \in SummaryRemotes \cup {NoCall} :
          Served("generate_summary", Data(content, max_length), rem,
                 generate_summary(available, content, max_length, rem))

GenerateKeyPoints ==
  /\ op = "idle"
  /\ \/ Rejected("generate_key_points")
     \/ \E content \in Contents, num_points \in Params \cup {Int_(DefaultNumPoints)},
           rem \in KeyPointsRemotes \cup {NoCall} :
          Served("generate_key_points", Data(content, num_points), rem,
                 generate_key_points(available, content, num_points, rem))

AnalyzeSentiment ==
  /\ op = "idle"
  /\ \/ Rejected("analyze_sentiment")
     \/ \E content \in ContentSamples \cup {<<>>}, rem \in SentimentRemotes \cup {NoCall} :
          Served("analyze_sentiment", Data(content, Int_(0)), rem,
                 analyze_sentiment(available, rem))

FetchFailed == <<"Failed to fetch or parse RSS feed">>

\* mutant: the handler does not test the service result for None
FetchFeedUnchecked ==
  /\ op = "idle"
  /\ \/ Rejected("fetch_feed")
     \/ \E net \in Nets, soup_ok \in BOOLEAN :
          LET feed_data == fetch_rss_feed(FeedUrl, net, soup_ok) IN
          /\ op' = "fetch_feed"
          /\ request' = [valid |-> TRUE, url |-> FeedUrl]
          /\ remote' = [kind |-> "fetch", net |-> net, soup_ok |-> soup_ok]
          /\ result' = feed_data
          /\ response' = [status |-> 200, success |-> TRUE, data |-> feed_data]
          /\ UNCHANGED <<config, available, remoteCalls>>

FetchFeed ==
  /\ op = "idle"
  /\ \/ Rejected("fetch_feed")
     \/ \E net \in Nets, soup_ok \in BOOLEAN :
          LET feed_data == fetch_rss_feed(FeedUrl, net, soup_ok) IN
          /\ op' = "fetch_feed"
          /\ request' = [valid |-> TRUE, url |-> FeedUrl]
          /\ remote' = [kind |-> "fetch", net |-> net, soup_ok |-> soup_ok]
          /\ result' = feed_data
          /\ response' = IF feed_data.kind = "value"
                         THEN [status |-> 200, success |-> TRUE, data |-> feed_data.value]
                         ELSE ServerError(FetchFailed)
          /\ UNCHANGED <<config, available, remoteCalls>>

HealthCheck ==
  /\ op = "idle"
  /\ op' = "health_check"
  /\ request' = NoData
  /\ remote' = NoCall
  /\ result' = NoResult
  /\ response' = [status |-> 200, ai_available |-> is_available(available)]
  /\ UNCHANGED <<config, available, remoteCalls>>

\* the handler returns: the JSON response goes to the client and the values
\* of the request are dropped; nothing of a request survives it but the
\* service object
SendResponse ==
  /\ op # "idle"
  /\ op' = "idle"
  /\ request' = NoData
  /\ remote' = NoCall
  /\ result' = NoResult
  /\ response' = NoResult
  /\ UNCHANGED <<config, available, remoteCalls>>

Next ==
  \/ GenerateSummary
  \/ GenerateKeyPoints
  \/ AnalyzeSentiment
  \/ FetchFeed
  \/ HealthCheck
  \/ SendResponse

Spec == Init /\ [][Next]_vars

(***************************************************************************)
(* Properties.                                                             *)
(***************************************************************************)
AIOps == {"generate_summary", "generate_key_points", "analyze_sentiment"}

\* the value of the current AI call was computed by a fallback
FallbackTaken == ~available \/ remote.kind \in {"raise", "empty"}

\* C1: whenever an AI handler answers with a value, ai_available is false
\* if the value came from the fallback path (unavailable mode or a failed
\* remote call) and true only if it came from the remote response.
C1_FlagTellsFallback ==
  (op \in AIOps /\ response.status = 200)
    => (response.ai_available <=> ~FallbackTaken)

\* C2: the mode is the one decided at construction and no handler changes
\* it; health_check reports that mode after any calls, failed ones included,
\* and makes no remote call itself.
C2_ModeIsTerminal ==
  [][ /\ available' = available
      /\ available' = (config'.api_key /\ config'.client_ok)
      /\ (op' = "health_check"
            => /\ response'.ai_available = (config.api_key /\ config.client_ok)
               /\ remoteCalls' = remoteCalls) ]_vars

C2_Witness ==
  /\ op = "health_check"
  /\ remoteCalls > 0
  /\ response.ai_available

\* C3: summarize, keyPoints and analyzeSentiment never raise: for every
\* text and number of the request each returns a value, the fallback value
\* when the service is unavailable or the remote path failed.
C3_NeverPropagates ==
  (op \in AIOps /\ request.valid)
    => /\ result.kind = "value"
       /\ response.status = 200

\* number of whitespace-separated words of a str
WordCount(s) ==
  Cardinality({i \in 1..Len(s) : ~IsSpace(s[i]) /\ (i = 1 \/ IsSpace(s[i - 1]))})

\* a summary computed in unavailable mode for an integer maxLength >= 0
UnavailableSummary ==
  /\ op = "generate_summary"
  /\ request.valid
  /\ ~available
  /\ ~request.param.half
  /\ request.param.whole >= 0

\* C4 as stated: in unavailable mode content of at most maxLength words
\* comes back unchanged, longer content as its first maxLength words joined
\* by single spaces and followed by "...".
C4_Original ==
  UnavailableSummary =>
    LET content == request.content
        n == request.param.whole
        words == Split(content)
    IN IF WordCount(content) <= n THEN result = Value(content)
       ELSE result = Value(Join(SubSeq(words, 1, n)) \o <<".", ".", ".">>)

\* C4 amended: as stated for non-empty content; empty content gives the
\* fixed "No content available for summary." text.
C4_FallbackSummary ==
  UnavailableSummary =>
    LET content == request.content
        n == request.param.whole
        words == Split(content)
    IN /\ content = <<>> => result = Value(<<"No content available for summary.">>)
       /\ (content # <<>> /\ WordCount(content) <= n) => result = Value(content)
       /\ (content # <<>> /\ WordCount(content) > n)
            => result = Value(Join(SubSeq(words, 1, n)) \o <<".", ".", ".">>)
       /\ (content = ExampleContent /\ n = 3)
            => result.value = <<"one", " ", "two", " ", "three", ".", ".", ".">>

C4_Witness ==
  /\ UnavailableSummary
  /\ request.param.whole >= 1
  /\ WordCount(request.content) = request.param.whole + 1
  /\ result.kind = "value"
  /\ Len(result.value) > 3
  /\ SubSeq(result.value, Len(result.value) - 2, Len(result.value)) = <<".", ".", ".">>

\* the fetch reached a channel dict
HasChannel ==
  /\ op = "fetch_feed"
  /\ request.valid
  /\ remote.net.kind = "parsed"
  /\ "rss" \in DOMAIN remote.net.feed_data
  /\ remote.net.feed_data["rss"].t = "dict"
  /\ "channel" \in DOMAIN remote.net.feed_data["rss"].d
  /\ remote.net.feed_data["rss"].d["channel"].t = "dict"

ChannelItem == Get(remote.net.feed_data["rss"].d["channel"].d, "item", Absent)

\* the items of the channel in document order
ChannelItems ==
  CASE ChannelItem.t = "absent" -> <<>>
    [] ChannelItem.t = "list" -> ChannelItem.q
    [] OTHER -> <<ChannelItem>>

\* positions, in increasing order, of the field mappings among items[from..to]
RECURSIVE Mappings(_, _, _)
Mappings(items, from, to) ==
  IF from > to \/ from > Len(items) THEN <<>>
  ELSE (IF items[from].t = "dict" THEN <<from>> ELSE <<>>)
         \o Mappings(items, from + 1, to)

\* the articles are those of the field mappings among the first 20 items,
\* in document order
ArticlesOfFirstTwenty ==
  LET good == Mappings(ChannelItems, 1, 20)
      articles == result.value.articles
  IN /\ Len(articles) = Len(good)
     /\ \A k \in 1..Len(good) :
          Value(articles[k]) = _parse_article_xml(ChannelItems[good[k]], remote.soup_ok)

\* C5: a channel whose single item is a bare object gives one article and
\* total_entries 1, whatever the number of fields of the item.
C5_SingleItem ==
  (HasChannel /\ ChannelItem.t = "dict")
    => /\ result.kind = "value"
       /\ Len(result.value.articles) = 1
       /\ result.value.feed_info.total_entries = 1

\* C6 as stated: more than 20 items give exactly 20 articles, article i the
\* conversion of item i.
C6_Original ==
  (HasChannel /\ Len(ChannelItems) > 20)
    => /\ result.kind = "value"
       /\ Len(result.value.articles) = 20
       /\ \A i \in 1..20 :
            Value(result.value.articles[i])
              = _parse_article_xml(ChannelItems[i], remote.soup_ok)

\* C6 amended: more than 20 items give the conversions, in document order,
\* of those of the first 20 items whose extraction succeeds: exactly 20, and
\* article i from item i, when all of the first 20 are field mappings; the
\* items after the 20th are dropped without error.
C6_FirstTwentyInOrder ==
  (HasChannel /\ Len(ChannelItems) > 20)
    => /\ result.kind = "value"
       /\ ArticlesOfFirstTwenty
       /\ result.value.feed_info.total_entries = Len(ChannelItems)
       /\ (\A i \in 1..20 : ChannelItems[i].t = "dict")
            => /\ Len(result.value.articles) = 20
               /\ \A i \in 1..20 :
                    result.value.articles[i].title = <<ToString(i)>>

C6_Witness ==
  /\ HasChannel
  /\ Len(ChannelItems) > 20
  /\ \A i \in 1..20 : ChannelItems[i].t = "dict"
  /\ ChannelItems[21].t # "dict"
  /\ result.kind = "value"
  /\ Len(result.value.articles) = 20

\* C7: with a channel present, an item whose extraction fails is skipped
\* alone and the fetch succeeds with the articles of the other items, also
\* when the bad item is the only item.
C7_BadItemSkipped ==
  HasChannel => (result.kind = "value" /\ ArticlesOfFirstTwenty)

\* the item an article was made from
SourceItem(k) == ChannelItems[Mappings(ChannelItems, 1, 20)[k]].d

Fetched == HasChannel /\ result.kind = "value" /\ ArticlesOfFirstTwenty

MatchesSome(raw) == \E i \in 1..Len(Formats) : Parses(raw, Formats[i])

FirstMatch(raw) ==
  CHOOSE i \in 1..Len(Formats) :
    Parses(raw, Formats[i]) /\ \A j \in 1..(i - 1) : ~Parses(raw, Formats[j])

Plain(text) == \A i \in 1..Len(text) : text[i].kind \in {"text", "space"}

FirstPresent(item, first, second) ==
  IF first \in DOMAIN item THEN item[first]
  ELSE IF second \in DOMAIN item THEN item[second]
  ELSE <<>>

\* s is the text of the first n characters of raw
IsPrefix(s, raw, n) ==
  /\ TextLen(s) = (IF TextLen(raw) < n THEN TextLen(raw) ELSE n)
  /\ Len(s) <= Len(raw)
  /\ \A i \in 1..Len(s) :
       /\ s[i].kind = raw[i].kind
       /\ IF i < Len(s) THEN s[i].n = raw[i].n ELSE s[i].n <= raw[i].n

SentimentKeys == {"sentiment", "confidence", "explanation"}

\* C10 as stated: every result of analyzeSentiment has the three fields, a
\* sentiment among positive, negative, neutral and a confidence in 0..100;
\* in unavailable mode it is the fixed neutral result.
C10_Original ==
  (op = "analyze_sentiment" /\ request.valid) =>
    /\ result.kind = "value"
    /\ DOMAIN result.value = SentimentKeys
    /\ result.value.sentiment \in {<<"positive">>, <<"negative">>, <<"neutral">>}
    /\ result.value.confidence \in 0..100
    /\ ~available =>
         /\ result.value.sentiment = <<"neutral">>
         /\ result.value.confidence = 50
         /\ result.value.explanation # <<>>

\* the key a response line sets, "" for a line without a label
KeyOf(line) ==
  CASE line.label = "Sentiment:" -> "sentiment"
    [] line.label = "Confidence:" -> "confidence"
    [] line.label = "Explanation:" -> "explanation"
    [] OTHER -> ""

\* C10 amended: in unavailable mode and on remote failure the result is the
\* fixed, fully populated {neutral, 50, non-empty explanation}; from a
\* remote response it has exactly the fields whose label lines the response
\* holds, the confidence, if any, a non-negative integer (50 when the line
\* has no digits) with no upper bound.
C10_SentimentResult ==
  (op = "analyze_sentiment" /\ request.valid) =>
    /\ result.kind = "value"
    /\ FallbackTaken =>
         /\ DOMAIN result.value = SentimentKeys
         /\ result.value.sentiment = <<"neutral">>
         /\ result.value.confidence = 50
         /\ result.value.explanation # <<>>
    /\ ~FallbackTaken =>
         /\ DOMAIN result.value
              = {KeyOf(remote.text[i]) : i \in 1..Len(remote.text)} \ {""}
         /\ "confidence" \in DOMAIN result.value
              => /\ result.value.confidence \in Nat
                 /\ (\A i \in 1..Len(remote.text) : \A j \in 1..Len(remote.text[i].rest) :
                       ~IsDigit(remote.text[i].rest[j]))
                      => result.value.confidence = 50

C10_Witness ==
  /\ op = "analyze_sentiment"
  /\ request.valid
  /\ ~FallbackTaken
  /\ DOMAIN result.value = {"confidence"}
  /\ result.value.confidence > 100

\* key points computed by the fallback for an integer numPoints >= 0
FallbackKeyPoints ==
  /\ op = "generate_key_points"
  /\ request.valid
  /\ FallbackTaken
  /\ ~request.param.half
  /\ request.param.whole >= 0

\* fragments joined again with ". " between them
RECURSIVE JoinSentences(_)
JoinSentences(frags) ==
  IF frags = <<>> THEN <<>>
  ELSE IF Len(frags) = 1 THEN frags[1]
  ELSE frags[1] \o <<".", " ">> \o JoinSentences(Tail(frags))

HoldsBoundary(frag) ==
  \E i \in 1..(Len(frag) - 1) : frag[i] = "." /\ frag[i + 1] = " "

ShapePresent ==
  /\ remote.net.kind = "parsed"
  /\ "rss" \in DOMAIN remote.net.feed_data
  /\ remote.net.feed_data["rss"].t = "dict"
  /\ "channel" \in DOMAIN remote.net.feed_data["rss"].d

\* C12: when the request fails or the document lacks the rss.channel shape
\* (a body that is not XML included), fetch returns its failure value, no
\* exception and no partial result, and fetch_feed answers success false
\* with an error and no data; success true needs the rss.channel shape.
C12_FetchFailureSignalled ==
  (op = "fetch_feed" /\ request.valid) =>
    /\ result.kind \in {"value", "None"}
    /\ ~ShapePresent
         => /\ result = [kind |-> "None"]
            /\ response.status = 500
            /\ ~response.success
            /\ "error" \in DOMAIN response
            /\ "data" \notin DOMAIN response
    /\ response.success
         => /\ ShapePresent
            /\ result.kind = "value"
            /\ response.data = result.value
            /\ response.data.success

C12_Witness ==
  /\ op = "fetch_feed"
  /\ request.valid
  /\ remote.net.kind = "not_xml"
  /\ response.status = 500
  /\ ~response.success

\* key points parsed from a remote response for an integer numPoints >= 0
ParsedKeyPoints ==
  /\ op = "generate_key_points"
  /\ request.valid
  /\ available
  /\ remote.kind = "text"
  /\ ~request.param.half
  /\ request.param.whole >= 0

\* the text starts with a bullet or with digits and a dot
HasListPrefix(text) ==
  /\ text # <<>>
  /\ \/ IsBullet(text[1])
     \/ \E i \in 2..Len(text) :
          text[i] = "." /\ \A j \in 1..(i - 1) : IsDigit(text[j])

\* a line counts as a point: trimmed, it starts with a digit or a bullet
Marked(line) ==
  LET t == Strip(line) IN t # <<>> /\ (IsDigit(t[1]) \/ IsBullet(t[1]))

\* the point of a marked line: one numbering prefix, then one bullet
\* prefix, removed from the trimmed line
PointOf(line) == Strip(StripBullet(StripNumbering(Strip(line))))

\* the response lines that give a point, in response order
KeptLines ==
  SelectSeq(remote.text, LAMBDA line : Marked(line) /\ PointOf(line) # <<>>)

\* C13 as stated: the points are the marked lines of the response without
\* their prefix, in order, cut to numPoints; every point is non-empty and
\* carries no leading numbering or bullet prefix.
C13_Original ==
  ParsedKeyPoints =>
    /\ result.kind = "value"
    /\ Len(result.value) <= request.param.whole
    /\ \A i \in 1..Len(result.value) :
         result.value[i] # <<>> /\ ~HasListPrefix(result.value[i])

\* C13 amended: as stated, except that only one "digits." prefix and, after
\* it, one bullet prefix are removed from a line, so a returned point is
\* non-empty but may still start with a numbering or a bullet.
C13_ParsedKeyPoints ==
  ParsedKeyPoints =>
    LET n == request.param.whole
        kept == KeptLines
    IN /\ result.kind = "value"
       /\ Len(result.value) <= n
       /\ Len(result.value) = (IF n < Len(kept) THEN n ELSE Len(kept))
       /\ \A i \in 1..Len(result.value) :
            /\ result.value[i] # <<>>
            /\ result.value[i] = PointOf(kept[i])
            /\ ~IsSpace(result.value[i][1])
            /\ ~IsSpace(result.value[i][Len(result.value[i])])

C13_Witness ==
  /\ ParsedKeyPoints
  /\ Len(KeptLines) > request.param.whole
  /\ Len(remote.text) > Len(KeptLines)
  /\ result.kind = "value"
  /\ Len(result.value) = 1
  /\ HasListPrefix(result.value[1])

====
